---- MODULE Spec2Model ----
(***************************************************************************)
(* Sonic Vision: the generation workflow of App.tsx together with the two  *)
(* service functions of geminiService.ts.                                  *)
(*                                                                         *)
(* The React state of App (status, audioFile, generatedPrompt, videoUrl,   *)
(* error, keySelected) is the state of the machine.  Every handler is one  *)
(* action; a handler that awaits is cut at its awaits, and the part that   *)
(* runs after an await is the action of the awaited call returning.  A     *)
(* user trigger is enabled only while the element that carries it is       *)
(* rendered (the JSX conditions of App.tsx).                               *)
(***************************************************************************)
EXTENDS Integers, Sequences, FiniteSets, TLC

---------------------------------------------------------------------------
(* Bounds of the exploration *)

\* accepted file selections (FileReader reads started) in one behaviour
MaxSelect == 2
\* video jobs submitted in one behaviour
MaxJobs == 2

---------------------------------------------------------------------------
(* Values *)

\* an optional value (null | x) is the empty or the one-element sequence
None == <<>>
Some(x) == <<x>>

IDLE == "IDLE"
ANALYZING == "ANALYZING"
REVIEW == "REVIEW"
GENERATING == "GENERATING"
COMPLETED == "COMPLETED"
ERROR == "ERROR"

AppStatus == {IDLE, ANALYZING, REVIEW, GENERATING, COMPLETED, ERROR}

\* file.size > 8 * 1024 * 1024
SizeLimit == 8 * 1024 * 1024

OversizedMsg == "File is too large. Please upload an MP3 under 8MB."
AnalyzeFailedMsg == "Failed to analyze audio. Please try a different file or check your connection."
SelectKeyFailedMsg == "Failed to select API key. Please try again."
GenerateFallbackMsg == "Failed to generate video."
FallbackPrompt == "A futuristic abstract scene pulsing with neon colors."
VeoFailedMsg == "Video generation failed. Please ensure you are using a paid billing project enabled for Veo."
NoVideoUriMsg == "No video URI returned from generation."
DownloadFailedMsg == "Failed to download video: "

\* The files the user can pick.  size is File.size; bytes stands for the
\* content (for the file at the limit, a sample of it).
SmallFile == [name |-> "small.mp3", type |-> "audio/mpeg", size |-> 2, bytes |-> <<255, 251>>]
LimitFile == [name |-> "limit.wav", type |-> "audio/wav", size |-> SizeLimit, bytes |-> <<82>>]
BigFile == [name |-> "big.mp3", type |-> "audio/mpeg", size |-> SizeLimit + 1, bytes |-> <<73, 68, 51>>]
Files == {SmallFile, LimitFile, BigFile}

\* response.text of generateContent: undefined, empty, or a description
ResponseTexts == {None, Some(""), Some("a neon cityscape at night")}

\* what the user can type into the textarea
EditTexts == {"", "a quiet forest"}

---------------------------------------------------------------------------
(* FileReader.readAsDataURL and the split of its result *)

B64 == <<"A","B","C","D","E","F","G","H","I","J","K","L","M","N","O","P",
         "Q","R","S","T","U","V","W","X","Y","Z","a","b","c","d","e","f",
         "g","h","i","j","k","l","m","n","o","p","q","r","s","t","u","v",
         "w","x","y","z","0","1","2","3","4","5","6","7","8","9","+","/">>

RECURSIVE Base64(_)
Base64(bytes) ==
  IF Len(bytes) = 0 THEN <<>>
  ELSE IF Len(bytes) = 1 THEN
    <<B64[(bytes[1] \div 4) + 1], B64[((bytes[1] % 4) * 16) + 1], "=", "=">>
  ELSE IF Len(bytes) = 2 THEN
    <<B64[(bytes[1] \div 4) + 1],
      B64[((bytes[1] % 4) * 16 + bytes[2] \div 16) + 1],
      B64[((bytes[2] % 16) * 4) + 1], "=">>
  ELSE
    <<B64[(bytes[1] \div 4) + 1],
      B64[((bytes[1] % 4) * 16 + bytes[2] \div 16) + 1],
      B64[((bytes[2] % 16) * 4 + bytes[3] \div 64) + 1],
      B64[(bytes[3] % 64) + 1]>> \o Base64(SubSeq(bytes, 4, Len(bytes)))

\* the data URL, one token per header part and per payload character
ReadAsDataURL(file) == <<"data:", file.type, ";base64", ",">> \o Base64(file.bytes)

\* String.prototype.split: the pieces of s between occurrences of sep
RECURSIVE SplitFrom(_, _, _, _)
SplitFrom(s, sep, i, cur) ==
  IF i > Len(s) THEN <<cur>>
  ELSE IF s[i] = sep THEN <<cur>> \o SplitFrom(s, sep, i + 1, <<>>)
  ELSE SplitFrom(s, sep, i + 1, Append(cur, s[i]))

Split(s, sep) == SplitFrom(s, sep, 1, <<>>)

Undefined == <<"undefined">>

Base64OfFirstPart(file) == Split(ReadAsDataURL(file), ",")[1]

\* (event.target?.result as string).split(',')[1]  (index 1 of JS is index 2 here)
Base64Of(file) ==
  LET parts == Split(ReadAsDataURL(file), ",")
  IN IF Len(parts) >= 2 THEN parts[2] ELSE Undefined

---------------------------------------------------------------------------
VARIABLES
  status, audioFile, generatedPrompt, videoUrl, error, keySelected,
  aistudio,      \* window.aistudio is present
  keyCheck,      \* checkApiKey: "pending" (hasSelectedApiKey outstanding) or "done"
  keyDialog,     \* the openSelectKey dialog is open
  fileInput,     \* value of the file input; None while the input is not mounted
  reads,         \* FileReader reads outstanding
  analyses,      \* analyzeAudioForPrompt calls outstanding
  jobs,          \* generateVeoVideo calls outstanding
  live,          \* object URLs created and not revoked
  count,         \* how many reads, analyses and jobs there have been
  last,          \* the last step taken (history)
  watch          \* what has to be watched since an earlier step (history)

appVars == <<status, audioFile, generatedPrompt, videoUrl, error>>
keyVars == <<keySelected, aistudio, keyCheck, keyDialog>>
asyncVars == <<reads, analyses, jobs>>
vars == <<status, audioFile, generatedPrompt, videoUrl, error, keySelected,
          aistudio, keyCheck, keyDialog, fileInput, reads, analyses, jobs,
          live, count, last, watch>>

App == [status |-> status, audioFile |-> audioFile,
        generatedPrompt |-> generatedPrompt, videoUrl |-> videoUrl,
        error |-> error]

Step(op, id, stale, cause) == [op |-> op, id |-> id, stale |-> stale, cause |-> cause]

\* URL.createObjectURL: a fresh blob: URL, named here after what it was made for
Url(kind, n) == [scheme |-> "blob:", kind |-> kind, id |-> n]

---------------------------------------------------------------------------
(* What is rendered *)

\* {!keySelected ? gate : workflow}
GateRendered == ~keySelected
\* {status === AppStatus.IDLE && (<input type="file" .../>)}
FileInputRenderedIn(k, s) == k /\ s = IDLE
ReviewRenderedInAnyStatus == keySelected /\ audioFile # None

\* {status === AppStatus.REVIEW && audioFile && (...)}
ReviewRendered == keySelected /\ status = REVIEW /\ audioFile # None
\* {status === AppStatus.COMPLETED && videoUrl && audioFile && (...)}
CompletedRendered == keySelected /\ status = COMPLETED /\ videoUrl # None /\ audioFile # None
\* the Cancel button of Review and the Create Another button of Completed
ResetRendered == ReviewRendered \/ CompletedRendered

\* the input element after a render: a newly mounted input has the empty value
Mount(v, k, s) ==
  IF FileInputRenderedIn(k, s) THEN (IF v = None THEN Some("") ELSE v) ELSE None

CleanupNever(old, new, urls) == urls

\* the cleanup of the videoUrl effect: revoke the old blob URL when videoUrl changes
Cleanup(old, new, urls) ==
  IF old # new /\ old # None /\ old[1].scheme = "blob:" THEN urls \ {old[1]} ELSE urls

---------------------------------------------------------------------------
Init ==
  /\ status = IDLE
  /\ audioFile = None
  /\ generatedPrompt = ""
  /\ videoUrl = None
  /\ error = None
  /\ keySelected = FALSE
  /\ aistudio \in BOOLEAN
  /\ keyCheck = IF aistudio THEN "pending" ELSE "done"
  /\ keyDialog = FALSE
  /\ fileInput = None
  /\ reads = {}
  /\ analyses = {}
  /\ jobs = {}
  /\ live = {}
  /\ count = [reads |-> 0, analyses |-> 0, jobs |-> 0]
  /\ last = Step("init", 0, FALSE, None)
  /\ watch = "none"

\* the steps of a video job
JobOps == {"operationPending", "fetchStarted", "poll", "jobFailed", "jobSucceeded"}

\* watch is "reset" after a reset made while a video job was outstanding, as
\* long as only steps of video jobs followed it; it is "failed" after an
\* analysis failed in Analyzing, as long as no file was selected since
NextWatch(op) ==
  CASE op = "reset" -> IF jobs # {} THEN "reset" ELSE "none"
    [] op = "analysisFailed" /\ status = ANALYZING -> "failed"
    [] op = "fileChange" -> "none"
    [] op \in JobOps -> watch
    [] OTHER -> IF watch = "reset" THEN "none" ELSE watch

Hist(op, id, stale, cause) ==
  /\ last' = Step(op, id, stale, cause)
  /\ watch' = NextWatch(op)

---------------------------------------------------------------------------
(* The credential gate *)

\* checkApiKey, after await window.aistudio.hasSelectedApiKey()
checkApiKeyReturns(hasKey) ==
  /\ keyCheck = "pending"
  /\ keyCheck' = "done"
  /\ keySelected' = hasKey
  /\ fileInput' = Mount(fileInput, hasKey, status)
  /\ Hist("checkApiKey", 0, FALSE, None)
  /\ UNCHANGED <<appVars, aistudio, keyDialog, asyncVars, live, count>>

\* checkApiKey, hasSelectedApiKey rejects: console.error only
checkApiKeyThrows ==
  /\ keyCheck = "pending"
  /\ keyCheck' = "done"
  /\ Hist("checkApiKeyFailed", 0, FALSE, None)
  /\ UNCHANGED <<appVars, keySelected, aistudio, keyDialog, fileInput, asyncVars, live, count>>

\* handleSelectKey up to await window.aistudio.openSelectKey()
handleSelectKey ==
  /\ GateRendered
  /\ aistudio
  /\ ~keyDialog
  /\ keyDialog' = TRUE
  /\ Hist("handleSelectKey", 0, FALSE, None)
  /\ UNCHANGED <<appVars, keySelected, aistudio, keyCheck, fileInput, asyncVars, live, count>>

\* handleSelectKey after the await: setKeySelected(true)
openSelectKeyResolves ==
  /\ keyDialog
  /\ keyDialog' = FALSE
  /\ keySelected' = TRUE
  /\ fileInput' = Mount(fileInput, TRUE, status)
  /\ Hist("keySelected", 0, FALSE, None)
  /\ UNCHANGED <<appVars, aistudio, keyCheck, asyncVars, live, count>>

\* handleSelectKey, openSelectKey rejects: setError(...)
openSelectKeyRejects ==
  /\ keyDialog
  /\ keyDialog' = FALSE
  /\ error' = Some(SelectKeyFailedMsg)
  /\ Hist("keySelectFailed", 0, FALSE, None)
  /\ UNCHANGED <<status, audioFile, generatedPrompt, videoUrl, keySelected,
                 aistudio, keyCheck, fileInput, asyncVars, live, count>>

---------------------------------------------------------------------------
(* File selection and analysis *)

IsOversized80MiB(file) == file.size > 80 * 1024 * 1024

\* file.size > 8 * 1024 * 1024
IsOversized(file) == file.size > SizeLimit

\* handleFileChange: the change event of the file input.  A change event
\* carries a file other than the one the input already holds.
handleFileChange(file) ==
  /\ fileInput # None
  /\ fileInput # Some(file.name)
  /\ fileInput' = Some(file.name)
  /\ IF IsOversized(file)
     THEN /\ error' = Some(OversizedMsg)
          /\ Hist("fileChange", 0, FALSE, Some(file.name))
          /\ UNCHANGED <<status, audioFile, generatedPrompt, videoUrl, keyVars,
                         asyncVars, live, count>>
     ELSE /\ count.reads < MaxSelect
          /\ reads' = reads \cup {[id |-> count.reads + 1, file |-> file]}
          /\ count' = [count EXCEPT !.reads = @ + 1]
          /\ Hist("fileChange", count.reads + 1, FALSE, Some(file.name))
          /\ UNCHANGED <<appVars, keyVars, analyses, jobs, live>>

\* the AudioFile that reader.onload stores
AudioFileOf(file, url) ==
  [name |-> file.name, type |-> file.type, base64 |-> Base64Of(file), url |-> url]

\* the arguments performAnalysis passes to analyzeAudioForPrompt
AnalysisCall(id, file) == [id |-> id, data |-> Base64Of(file), mimeType |-> file.type]

\* reader.onload, with performAnalysis up to await analyzeAudioForPrompt(...)
readerOnload(r) ==
  /\ r \in reads
  /\ reads' = reads \ {r}
  /\ audioFile' = Some(AudioFileOf(r.file, Url("audio", count.analyses + 1)))
  /\ live' = live \cup {Url("audio", count.analyses + 1)}
  /\ error' = None
  /\ status' = ANALYZING
  /\ analyses' = analyses \cup {AnalysisCall(count.analyses + 1, r.file)}
  /\ count' = [count EXCEPT !.analyses = @ + 1]
  /\ fileInput' = Mount(fileInput, keySelected, ANALYZING)
  /\ Hist("readerOnload", count.analyses + 1, status # IDLE, Some(r.file.name))
  /\ UNCHANGED <<generatedPrompt, videoUrl, keyVars, jobs>>

PromptOfNoFallback(text) == IF text = None THEN "" ELSE text[1]

\* response.text || "A futuristic abstract scene pulsing with neon colors."
PromptOf(text) == IF text = None \/ text = Some("") THEN FallbackPrompt ELSE text[1]

\* the analysis of this launch is the one the Analyzing status is waiting for
AnalysisCurrent(c) == status = ANALYZING /\ c.id = count.analyses

\* performAnalysis after the await, analyzeAudioForPrompt resolved
analyzeReturns(c, text) ==
  /\ c \in analyses
  /\ analyses' = analyses \ {c}
  /\ generatedPrompt' = PromptOf(text)
  /\ status' = REVIEW
  /\ fileInput' = Mount(fileInput, keySelected, REVIEW)
  /\ Hist("analysisResolved", c.id, ~AnalysisCurrent(c), text)
  /\ UNCHANGED <<audioFile, videoUrl, error, keyVars, reads, jobs, live, count>>

\* performAnalysis after the await, analyzeAudioForPrompt threw
analyzeThrows(c) ==
  /\ c \in analyses
  /\ analyses' = analyses \ {c}
  /\ error' = Some(AnalyzeFailedMsg)
  /\ status' = IDLE
  /\ fileInput' = Mount(fileInput, keySelected, IDLE)
  /\ Hist("analysisFailed", c.id, ~AnalysisCurrent(c), None)
  /\ UNCHANGED <<audioFile, generatedPrompt, videoUrl, keyVars, reads, jobs, live, count>>

\* the textarea of Review: onChange={(e) => setGeneratedPrompt(e.target.value)}
promptEdited(text) ==
  /\ ReviewRendered
  /\ text # generatedPrompt
  /\ generatedPrompt' = text
  /\ Hist("promptEdited", 0, FALSE, Some(text))
  /\ UNCHANGED <<status, audioFile, videoUrl, error, keyVars, fileInput, asyncVars, live, count>>

---------------------------------------------------------------------------
(* Video generation *)

\* handleGenerateVideo up to await generateVeoVideo(generatedPrompt), and
\* generateVeoVideo up to await ai.models.generateVideos(...)
NoPromptNever(prompt) == FALSE

\* !generatedPrompt
NoPrompt(prompt) == prompt = ""

handleGenerateVideo ==
  /\ ReviewRendered
  /\ IF NoPrompt(generatedPrompt)
     THEN /\ Hist("generateIgnored", 0, FALSE, None)
          /\ UNCHANGED <<appVars, keyVars, fileInput, asyncVars, live, count>>
     ELSE /\ count.jobs < MaxJobs
          /\ status' = GENERATING
          /\ error' = None
          /\ jobs' = jobs \cup {[id |-> count.jobs + 1, prompt |-> generatedPrompt,
                                 pc |-> "submit", operation |-> None]}
          /\ count' = [count EXCEPT !.jobs = @ + 1]
          /\ fileInput' = Mount(fileInput, keySelected, GENERATING)
          /\ Hist("generate", count.jobs + 1, FALSE, Some(generatedPrompt))
          /\ UNCHANGED <<audioFile, generatedPrompt, videoUrl, keyVars, reads, analyses, live>>

\* the job of this launch is the one the Generating status is waiting for
JobCurrent(j) == status = GENERATING /\ j.id = count.jobs

\* the Error a failure inside generateVeoVideo's try block carries
InnerError(cause) ==
  CASE cause = "NoVideoProduced" -> NoVideoUriMsg
    [] cause = "DownloadFailed" -> DownloadFailedMsg
    [] OTHER -> cause

\* generateVeoVideo's catch: the error caught is logged, and a new Error
\* with one fixed text is thrown whatever the error caught was
ThrownMessage(inner) == VeoFailedMsg

\* e.message || "Failed to generate video."
MessageOf(msg) == IF msg = "" THEN GenerateFallbackMsg ELSE msg

\* handleGenerateVideo after the await, generateVeoVideo threw
JobFails(j, cause) ==
  /\ jobs' = jobs \ {j}
  /\ error' = Some(MessageOf(ThrownMessage(InnerError(cause))))
  /\ status' = REVIEW
  /\ fileInput' = Mount(fileInput, keySelected, REVIEW)
  /\ Hist("jobFailed", j.id, ~JobCurrent(j), Some(cause))
  /\ UNCHANGED <<audioFile, generatedPrompt, videoUrl, keyVars, reads, analyses, live, count>>

\* handleGenerateVideo after the await, generateVeoVideo returned
\* URL.createObjectURL(blob); the effect cleanup revokes the URL it replaces
JobSucceeds(j) ==
  /\ jobs' = jobs \ {j}
  /\ videoUrl' = Some(Url("video", j.id))
  /\ live' = Cleanup(videoUrl, Some(Url("video", j.id)), live) \cup {Url("video", j.id)}
  /\ status' = COMPLETED
  /\ fileInput' = Mount(fileInput, keySelected, COMPLETED)
  /\ Hist("jobSucceeded", j.id, ~JobCurrent(j), None)
  /\ UNCHANGED <<audioFile, generatedPrompt, error, keyVars, reads, analyses, count>>

LoopContinuesAlways(operation) == TRUE

\* while (!operation.done)
LoopContinues(operation) == ~operation.done

\* an operation handle came back and is assigned to `operation`: the loop
\* test, then operation.response?.generatedVideos?.[0]?.video?.uri and the
\* fetch; only an operation that is done carries a response
OperationReceived(j, done, hasUri) ==
  LET operation == [done |-> done, uri |-> done /\ hasUri]
      received == [j EXCEPT !.operation = Some(operation)]
  IN  IF LoopContinues(operation)
      THEN /\ jobs' = (jobs \ {j}) \cup {[received EXCEPT !.pc = "sleep"]}
           /\ Hist("operationPending", j.id, FALSE, Some(j.pc))
           /\ UNCHANGED <<appVars, keyVars, fileInput, reads, analyses, live, count>>
      ELSE IF ~operation.uri
      THEN JobFails(j, "NoVideoProduced")
      ELSE /\ jobs' = (jobs \ {j}) \cup {[received EXCEPT !.pc = "fetch"]}
           /\ Hist("fetchStarted", j.id, FALSE, Some(j.pc))
           /\ UNCHANGED <<appVars, keyVars, fileInput, reads, analyses, live, count>>

\* await ai.models.generateVideos(...) returned
generateVideosReturns(j, done, hasUri) ==
  /\ j \in jobs
  /\ j.pc = "submit"
  /\ OperationReceived(j, done, hasUri)

\* await ai.models.generateVideos(...) threw
generateVideosThrows(j) ==
  /\ j \in jobs
  /\ j.pc = "submit"
  /\ JobFails(j, "JobSubmissionFailed")

\* the 10 second timer fired: ai.operations.getVideosOperation is called
timerFires(j) ==
  /\ j \in jobs
  /\ j.pc = "sleep"
  /\ jobs' = (jobs \ {j}) \cup {[j EXCEPT !.pc = "poll"]}
  /\ Hist("poll", j.id, FALSE, None)
  /\ UNCHANGED <<appVars, keyVars, fileInput, reads, analyses, live, count>>

\* await ai.operations.getVideosOperation(...) returned
getVideosOperationReturns(j, done, hasUri) ==
  /\ j \in jobs
  /\ j.pc = "poll"
  /\ OperationReceived(j, done, hasUri)

\* await ai.operations.getVideosOperation(...) threw
getVideosOperationThrows(j) ==
  /\ j \in jobs
  /\ j.pc = "poll"
  /\ JobFails(j, "PollFailed")

\* await fetch(...) returned a response; if (!response.ok) throw
fetchReturns(j, ok) ==
  /\ j \in jobs
  /\ j.pc = "fetch"
  /\ IF ok THEN JobSucceeds(j) ELSE JobFails(j, "DownloadFailed")

\* await fetch(...) or await response.blob() threw
fetchThrows(j) ==
  /\ j \in jobs
  /\ j.pc = "fetch"
  /\ JobFails(j, "FetchFailed")

---------------------------------------------------------------------------
(* Reset *)

ResetAppKeepsError ==
  [status |-> IDLE, audioFile |-> None, generatedPrompt |-> "",
   videoUrl |-> None, error |-> error]

\* the React state handleReset sets
ResetApp ==
  [status |-> IDLE, audioFile |-> None, generatedPrompt |-> "",
   videoUrl |-> None, error |-> None]

\* handleReset; the effect cleanup revokes the video URL it clears
handleReset ==
  /\ ResetRendered
  /\ status' = ResetApp.status
  /\ audioFile' = ResetApp.audioFile
  /\ generatedPrompt' = ResetApp.generatedPrompt
  /\ videoUrl' = ResetApp.videoUrl
  /\ error' = ResetApp.error
  /\ live' = Cleanup(videoUrl, ResetApp.videoUrl, live)
  /\ fileInput' = Mount(IF fileInput # None THEN Some("") ELSE fileInput,
                        keySelected, ResetApp.status)
  /\ Hist("reset", 0, FALSE, Some(status))
  /\ UNCHANGED <<keyVars, asyncVars, count>>

---------------------------------------------------------------------------
Next ==
  \/ \E hasKey \in BOOLEAN : checkApiKeyReturns(hasKey)
  \/ checkApiKeyThrows
  \/ handleSelectKey
  \/ openSelectKeyResolves
  \/ openSelectKeyRejects
  \/ \E file \in Files : handleFileChange(file)
  \/ \E r \in reads : readerOnload(r)
  \/ \E c \in analyses, text \in ResponseTexts : analyzeReturns(c, text)
  \/ \E c \in analyses : analyzeThrows(c)
  \/ \E text \in EditTexts : promptEdited(text)
  \/ handleGenerateVideo
  \/ \E j \in jobs, done \in BOOLEAN, hasUri \in BOOLEAN : generateVideosReturns(j, done, hasUri)
  \/ \E j \in jobs : generateVideosThrows(j)
  \/ \E j \in jobs : timerFires(j)
  \/ \E j \in jobs, done \in BOOLEAN, hasUri \in BOOLEAN : getVideosOperationReturns(j, done, hasUri)
  \/ \E j \in jobs : getVideosOperationThrows(j)
  \/ \E j \in jobs, ok \in BOOLEAN : fetchReturns(j, ok)
  \/ \E j \in jobs : fetchThrows(j)
  \/ handleReset

Spec == Init /\ [][Next]_vars

---------------------------------------------------------------------------
(* Scheduling of a video job *)

\* a step of the job with this id: a timer that fires, an awaited call that
\* settles and the continuation that runs after it
JobStep(id) ==
  \E j \in jobs :
    /\ j.id = id
    /\ \/ \E done \in BOOLEAN, hasUri \in BOOLEAN : generateVideosReturns(j, done, hasUri)
       \/ generateVideosThrows(j)
       \/ timerFires(j)
       \/ \E done \in BOOLEAN, hasUri \in BOOLEAN : getVideosOperationReturns(j, done, hasUri)
       \/ getVideosOperationThrows(j)
       \/ \E ok \in BOOLEAN : fetchReturns(j, ok)
       \/ fetchThrows(j)

\* a poll of the job with this id that ends the loop: the service reports
\* done, or the call fails
PollEnds(id) ==
  \E j \in jobs :
    /\ j.id = id
    /\ \/ \E hasUri \in BOOLEAN : getVideosOperationReturns(j, TRUE, hasUri)
       \/ getVideosOperationThrows(j)

\* timers fire and settled promises run their continuations (the event
\* loop); the service does not answer "not done" to a job for ever
FairSpec ==
  /\ Spec
  /\ \A id \in 1..MaxJobs : WF_vars(JobStep(id)) /\ SF_vars(PollEnds(id))


---------------------------------------------------------------------------
(* Claims *)

Cleared ==
  /\ status = IDLE
  /\ audioFile = None
  /\ videoUrl = None
  /\ error = None

OutcomeOps == {"analysisResolved", "analysisFailed", "jobSucceeded", "jobFailed"}

\* C1: single-flight generation: at no time are two video jobs outstanding
\* (a generate request made while a job is outstanding submits no second job).
C1_SingleFlightGeneration == Cardinality(jobs) <= 1

\* C2: at most one analysis call is outstanding in every reachable state, also
\* when a second file is selected before the read of the first has completed.
C2_SingleFlightAnalysis == Cardinality(analyses) <= 1

\* C3: stale-response guard: the outcome of an analysis call or of a video
\* job that arrives when the status is no longer the Analyzing or Generating
\* of its own launch changes neither status, prompt, error nor video.
C3_StaleOutcomeDiscarded ==
  [][(last'.op \in OutcomeOps /\ last'.stale) =>
       UNCHANGED <<status, generatedPrompt, error, videoUrl>>]_vars

\* C4: after a reset made while a video job is outstanding, and as long as
\* only that job's own steps follow (no user trigger), the status is Idle
\* with no audio input, no video result and no error, before and after the
\* stale job result arrives.
C4_ResetSettlesAtIdle == watch = "reset" => Cleared

C6_OversizedRejected ==
  [][\A f \in Files :
       (last'.op = "fileChange" /\ last'.cause = Some(f.name) /\ f.size > SizeLimit) =>
         /\ status = IDLE
         /\ status' = IDLE
         /\ error' # None
         /\ error'[1] # ""
         /\ reads' = reads
         /\ analyses' = analyses
         /\ UNCHANGED <<audioFile, generatedPrompt, videoUrl>>]_vars

C6_Witness ==
  /\ last.op = "fileChange"
  /\ last.cause = Some(BigFile.name)
  /\ BigFile.size > SizeLimit
  /\ status = IDLE
  /\ error = Some(OversizedMsg)
  /\ reads = {}

\* C7: selecting a file of at most the limit (the limit included) in Idle
\* starts exactly one read of it, and the completion of that read gives the
\* status Analyzing, an audio input with that file's name, MIME type and
\* base64 payload, no error, and exactly one new analysis call with that
\* payload and MIME type.
C7_ValidFileAnalyzed ==
  [][\A f \in Files : f.size <= SizeLimit =>
       /\ (last'.op = "fileChange" /\ last'.cause = Some(f.name)) =>
            /\ status = IDLE
            /\ reads \subseteq reads'
            /\ Cardinality(reads' \ reads) = 1
            /\ \A r \in reads' \ reads : r.file = f
            /\ analyses' = analyses
       /\ (last'.op = "readerOnload" /\ last'.cause = Some(f.name)) =>
            /\ status' = ANALYZING
            /\ audioFile' # None
            /\ audioFile'[1].name = f.name
            /\ audioFile'[1].type = f.type
            /\ audioFile'[1].base64 = Base64(f.bytes)
            /\ error' = None
            /\ analyses \subseteq analyses'
            /\ Cardinality(analyses' \ analyses) = 1
            /\ \A c \in analyses' \ analyses :
                 c.data = Base64(f.bytes) /\ c.mimeType = f.type]_vars

C7_Witness ==
  /\ last.op = "readerOnload"
  /\ last.cause = Some(LimitFile.name)
  /\ ~last.stale
  /\ LimitFile.size = 8 * 1024 * 1024
  /\ status = ANALYZING
  /\ audioFile # None
  /\ audioFile[1].base64 = <<"U", "g", "=", "=">>
  /\ Cardinality(analyses) = 1

\* C8: when the analysis call resolves while the status is Analyzing, the
\* next status is Review and the prompt is the returned text if that is
\* non-empty and the fixed fallback description if the text is empty or
\* missing; no error is raised for an empty response.
C8_AnalysisResolves ==
  [][(last'.op = "analysisResolved" /\ status = ANALYZING) =>
       /\ status' = REVIEW
       /\ generatedPrompt' =
            (IF last'.cause = None \/ last'.cause = Some("")
             THEN "A futuristic abstract scene pulsing with neon colors."
             ELSE last'.cause[1])
       /\ error' = error]_vars

C8_Witness ==
  /\ last.op = "analysisResolved"
  /\ ~last.stale
  /\ last.cause = Some("")
  /\ status = REVIEW
  /\ generatedPrompt = FallbackPrompt

\* C9: when the analysis call fails while the status is Analyzing, the next
\* status is Idle with a non-empty error and the prompt untouched, and no
\* analysis call is issued until the user selects a file again.
C9_AnalysisFailureNoRetry ==
  [][/\ (last'.op = "analysisFailed" /\ status = ANALYZING) =>
          /\ status' = IDLE
          /\ error' # None
          /\ error'[1] # ""
          /\ generatedPrompt' = generatedPrompt
          /\ analyses' \subseteq analyses
     /\ (watch = "failed" /\ last'.op # "fileChange") => analyses' \subseteq analyses]_vars

\* the error shown for a failure cause
ShownError(cause) == Some(MessageOf(ThrownMessage(InnerError(cause))))

\* C10: when the video job the Generating status waits for fails, the next
\* status is Review with a non-empty error and the prompt the job was
\* submitted with; when the failure is a done operation without a video
\* reference, the error differs from the one shown for a failed submission
\* and from the one shown for a failed download.
C10_JobFailureIdentified ==
  [][(last'.op = "jobFailed" /\ status = GENERATING /\ ~last'.stale) =>
       /\ status' = REVIEW
       /\ error' # None
       /\ error'[1] # ""
       /\ \A j \in jobs : j.id = last'.id => generatedPrompt' = j.prompt
       /\ last'.cause = Some("NoVideoProduced") =>
            /\ error' # ShownError("JobSubmissionFailed")
            /\ error' # ShownError("DownloadFailed")]_vars

\* C11: a prompt edit is accepted only while the status is Review; there it
\* replaces the prompt with the text typed and leaves status, audio input,
\* video result and error unchanged; in no other status does an edit change
\* the prompt or the status.
C11_EditOnlyInReview ==
  [][/\ (ENABLED (\E text \in EditTexts : promptEdited(text))) => status = REVIEW
     /\ last'.op = "promptEdited" =>
          /\ status = REVIEW
          /\ generatedPrompt' = last'.cause[1]
          /\ UNCHANGED <<status, audioFile, videoUrl, error>>]_vars

C11_Witness ==
  /\ last.op = "promptEdited"
  /\ last.cause = Some("a quiet forest")
  /\ status = REVIEW
  /\ generatedPrompt = "a quiet forest"

\* C12: the video job is submitted with the prompt exactly as it stands when
\* generate is requested in Review; the prompt does not change from there
\* until the job has resolved or failed; and the Completed state a successful
\* job gives holds that job's video together with the prompt it was
\* submitted with.
C12_PromptFixedDuringJob ==
  [][/\ last'.op = "generate" =>
          \E j \in jobs' \ jobs : /\ j.id = last'.id
                                  /\ j.prompt = generatedPrompt
                                  /\ generatedPrompt' = generatedPrompt
     /\ \A j \in jobs :
          /\ generatedPrompt' = j.prompt
          /\ (last'.op = "jobSucceeded" /\ last'.id = j.id) =>
               /\ status' = COMPLETED
               /\ videoUrl' = Some(Url("video", j.id))]_vars

\* C13 (as claimed): in every reachable state whose status is Review,
\* Generating or Completed the prompt is a non-empty string, also after any
\* sequence of prompt edits made in Review.
C13_PromptNonEmpty ==
  status \in {REVIEW, GENERATING, COMPLETED} => generatedPrompt # ""

\* C13 (amended): the prompt is non-empty in every reachable state whose
\* status is Generating, and in the Review state an analysis result has just
\* given; an edit in Review can make it the empty string.
C13_PromptNonEmptyInGenerating ==
  /\ status = GENERATING => generatedPrompt # ""
  /\ last.op = "analysisResolved" => (status = REVIEW /\ generatedPrompt # "")

C13_Witness ==
  /\ status = GENERATING
  /\ last.op = "generate"
  /\ generatedPrompt = "a quiet forest"

\* C14: in every reachable state a video result is present exactly when the
\* status is Completed.
C14_VideoIffCompleted == (videoUrl # None) <=> (status = COMPLETED)

\* C15: in every reachable state an audio input is present exactly when the
\* status is Analyzing, Review, Generating or Completed, except in the Idle
\* state of an error recovery (an error is shown), which keeps the file.
C15_AudioIffPastIdle ==
  /\ status \in {ANALYZING, REVIEW, GENERATING, COMPLETED} => audioFile # None
  /\ (status = IDLE /\ audioFile # None) => error # None

\* C16: an error is present only while the status is Idle or Review (or
\* Error), never in Analyzing, Generating or Completed; and every new attempt
\* (the analysis launched for an accepted file, a generate request) clears
\* the error in the step that launches its asynchronous call.
C16_ErrorOnlyInIdleOrReview ==
  /\ error # None => status \in {IDLE, REVIEW, ERROR}
  /\ last.op \in {"readerOnload", "generate"} => error = None

\* C17: credential gate: the status differs from Idle only if a credential
\* has been selected; while none is selected no file selection is accepted
\* and no analysis or video job is launched; and a credential once selected
\* is never unselected.
C17_CredentialGate ==
  [][/\ status' # IDLE => keySelected'
     /\ ~keySelected => last'.op \notin {"fileChange", "readerOnload", "generate"}
     /\ keySelected => keySelected']_vars

\* C18: every change of status is one of the edges Idle -> Analyzing,
\* Analyzing -> Review, Analyzing -> Idle, Review -> Generating,
\* Generating -> Completed, Generating -> Review, or any status -> Idle by a
\* reset; no other edge occurs and the Error status is never entered.
C18_StatusEdges ==
  [][status' # status =>
       \/ <<status, status'>> \in {<<IDLE, ANALYZING>>, <<ANALYZING, REVIEW>>,
                                   <<ANALYZING, IDLE>>, <<REVIEW, GENERATING>>,
                                   <<GENERATING, COMPLETED>>, <<GENERATING, REVIEW>>}
       \/ (status' = IDLE /\ last'.op = "reset")]_vars

\* C19: within one video job the steps are ordered submit, polls, at most
\* one fetch, at most one handle creation: a poll is issued only when the
\* latest operation handle is not done (none when the submission returns
\* done, none after done was observed); the fetch is issued only after an
\* operation that is done and carries a video reference, and once it is
\* issued the job neither polls nor fetches again; a playable handle is
\* created only by the step that receives the fetch response, not when that
\* response is a failure, and the job ends with it.
C19_JobStepOrder ==
  [][/\ last'.op = "jobFailed" => live' \ live = {}
     /\ \A j \in jobs :
          /\ \A k \in jobs' :
               k.id = j.id =>
                 /\ (j.pc # "poll" /\ k.pc = "poll") =>
                      /\ j.pc = "sleep"
                      /\ j.operation # None
                      /\ ~j.operation[1].done
                 /\ k.pc = "sleep" => (k.operation # None /\ ~k.operation[1].done)
                 /\ (j.pc # "fetch" /\ k.pc = "fetch") =>
                      /\ j.pc \in {"submit", "poll"}
                      /\ k.operation = Some([done |-> TRUE, uri |-> TRUE])
                 /\ j.pc = "fetch" => k.pc = "fetch"
          /\ Url("video", j.id) \in live' \ live =>
               /\ j.pc = "fetch"
               /\ \A k \in jobs' : k.id # j.id
               /\ last' = Step("jobSucceeded", j.id, last'.stale, None)]_vars

C19_Witness ==
  /\ last.op = "fetchStarted"
  /\ last.cause = Some("poll")
  /\ \E j \in jobs : /\ j.id = last.id
                     /\ j.pc = "fetch"
                     /\ j.operation = Some([done |-> TRUE, uri |-> TRUE])

\* C20: when timers fire, settled calls run their continuations and the
\* service does not report "not done" for ever, every state whose status is
\* Generating is followed by a state whose status is Completed, Review or
\* Idle.
C20_GeneratingEnds ==
  (status = GENERATING) ~> (status \in {COMPLETED, REVIEW, IDLE})

C20_Witness ==
  /\ status = GENERATING
  /\ \E j \in jobs : /\ JobCurrent(j)
                     /\ j.pc = "poll"
                     /\ j.operation = Some([done |-> FALSE, uri |-> FALSE])

\* the blob URLs of one kind among urls
Urls(kind, urls) == {u \in urls : u.kind = kind}

\* C21: a video blob URL is created only by a job that succeeds, as a URL
\* that was never live before (a failing job creates none); it stays
\* allocated as long as it is the current video result, and it is revoked in
\* the very step in which it stops being the current one, which is a reset
\* or the arrival of a superseding result; it is revoked at no other time.
C21_VideoUrlReleasedOnce ==
  [][/\ Urls("video", live') = (IF videoUrl' = None THEN {} ELSE {videoUrl'[1]})
     /\ \A u \in Urls("video", live' \ live) :
          /\ last'.op = "jobSucceeded"
          /\ u = Url("video", last'.id)
          /\ videoUrl' = Some(u)
          /\ last'.id \in {j.id : j \in jobs} \ {j.id : j \in jobs'}
          /\ last'.id \notin {v.id : v \in Urls("video", live)}
     /\ \A u \in Urls("video", live \ live') :
          /\ videoUrl = Some(u)
          /\ videoUrl' # videoUrl
          /\ last'.op \in {"reset", "jobSucceeded"}
     /\ last'.op = "jobFailed" => Urls("video", live') = Urls("video", live)]_vars

C21_Witness ==
  /\ last.op = "reset"
  /\ last.cause = Some(COMPLETED)
  /\ videoUrl = None
  /\ Urls("video", live) = {}
  /\ count.jobs >= 1

\* C22: an audio blob URL is allocated only while it is the URL of the
\* current audio input: it is revoked by the reset that clears the audio
\* input or by the file selection that replaces it, and after a reset no
\* audio URL remains allocated.
C22_AudioUrlReleased ==
  /\ Urls("audio", live) = (IF audioFile = None THEN {} ELSE {audioFile[1].url})
  /\ last.op = "reset" => Urls("audio", live) = {}

\* C23: a generate request made while the prompt is the empty string is
\* ignored: no job is submitted, and status, error, audio input and video
\* result are unchanged (the status stays Review, no error is shown).
C23_EmptyPromptIgnored ==
  [][(last'.op \in {"generate", "generateIgnored"} /\ generatedPrompt = "") =>
       /\ jobs' = jobs
       /\ count' = count
       /\ status = REVIEW
       /\ UNCHANGED <<status, error, audioFile, videoUrl, generatedPrompt>>]_vars

C23_Witness ==
  /\ last.op = "generateIgnored"
  /\ generatedPrompt = ""
  /\ status = REVIEW
  /\ jobs = {}
  /\ count.jobs = 0

====
